---- MODULE Spec2Model ----
(***************************************************************************)
(* State-machine model of the mesh orchestrator.                           *)
(*                                                                         *)
(*   MultiPeerMesh  (src/src/MultiPeerMesh.js)                             *)
(*     Spec          relay and capability events, join() and destroy()     *)
(*     SpecMessages  relay and capability events, broadcast() and send()   *)
(*     SpecStreams   relay and capability events, the stream operations    *)
(*   SimplePeerMesh (src/unnamed/part_000)                                 *)
(*     SpecSimple    socket and capability events, join()                  *)
(*                                                                         *)
(* The signaling relay and the peer connection capability (simple-peer)    *)
(* are the environment: relay events and capability notifications are      *)
(* delivered one at a time, each handler running to completion.            *)
(***************************************************************************)
EXTENDS Integers, Sequences, FiniteSets, TLC

\* ------------------------------------------------------------------ bounds
MaxCaps == 2       \* capabilities alive at the same time (map entries + orphans)
MaxListeners == 1  \* listeners of timed-out joins left on 'full-connect' when join() is called
MaxRoom == 3       \* largest room count the relay reports

\* the identities the relay names (opaque handles)
Ids == {"a", "b"}
RoomCounts == 1..MaxRoom

\* message payloads handed to broadcast/send: a text and a structured value
Messages == {[kind |-> "text", val |-> "hello"], [kind |-> "object", val |-> "x1"]}

\* signalling payloads the relay forwards (opaque to the orchestrator)
Payloads == {"offer", "candidate"}

\* media streams handed to the stream operations (opaque handles)
Streams == {"s1", "s2"}

VARIABLES
    peers,            \* this.peers: entries in property (insertion) order
    orphans,          \* per identity, the capabilities createPeer made for it that were
                      \* overwritten in this.peers and never destroyed
    roomCount,        \* this.signal.roomCount: <<>> while undefined, else <<n>>
    join,             \* position of the latest join() call (the caller awaits each
                      \* join before it calls the next)
    joinCount,        \* the local roomCount of that join() (0 before it is received)
    stale,            \* listeners left on 'full-connect' by joins that timed out
    pendingAtDestroy, \* the join is pending and was pending at a destroy() call
    emitted,          \* notifications emitted by the last step, in order
    sends,            \* capability send() calls made by the last step, in order
    raised,           \* the last step ended by throwing
    lastOp,           \* the operation performed by the last step
    broadcastedStream,\* this.broadcastedStream: <<>> while null, else <<stream>>
    calls             \* capability signal() / addStream() / removeStream() calls made
                      \* by the last step, in order

meshVars == <<peers, orphans, roomCount, join, joinCount, stale, pendingAtDestroy,
              emitted, sends, raised, lastOp, broadcastedStream, calls>>

\* ---------------------------------------- state of the alternate binding
NumJoins == 2      \* join() calls made on one SimplePeerMesh

SJoinIds == 1..NumJoins

VARIABLES
    sPeers,       \* this.peers
    sOrphans,     \* capabilities overwritten in this.peers, as for orphans
    sRoomCount,   \* this.roomCount
    sEvents,      \* this._events: per event, the listener array (a listener is
                  \* named by the join() call that registered it)
    sJoin,        \* position of each join() call
    sFired,       \* the fire() calls of the last step, in order
    sInvoked,     \* the listener invocations of the last step, in order
    sLastOp       \* the operation performed by the last step

simpleVars == <<sPeers, sOrphans, sRoomCount, sEvents, sJoin, sFired, sInvoked, sLastOp>>

vars == <<meshVars, simpleVars>>

\* ------------------------------------------------------------- peer map
\* this.peers.hasOwnProperty(id)
PeersHas(p, id) == \E k \in 1..Len(p) : p[k].id = id

PeersIndex(p, id) == CHOOSE k \in 1..Len(p) : p[k].id = id

\* this.peers[id]
PeersGet(p, id) == p[PeersIndex(p, id)]

\* a list-based map that appends without looking the key up
PeersPutAppend(p, e) == Append(p, e)

\* this.peers[socketId] = peer : an existing property keeps its place
PeersPut(p, e) ==
    IF PeersHas(p, e.id)
    THEN [p EXCEPT ![PeersIndex(p, e.id)] = e]
    ELSE Append(p, e)

\* delete this.peers[id]
PeersDelete(p, id) == SelectSeq(p, LAMBDA e : e.id # id)

\* a createPeer that never passes a stream in its options
createPeerNoStream(socketId, initiator) ==
    [id |-> socketId, initiator |-> initiator, connected |-> FALSE, streams |-> {}]

\* new Peer(options) with the handlers of createPeer bound to socketId;
\* options.stream is set when this.broadcastedStream is not null
createPeer(socketId, initiator) ==
    [id |-> socketId, initiator |-> initiator, connected |-> FALSE,
     streams |-> IF broadcastedStream # <<>> THEN {broadcastedStream[1]} ELSE {}]

getConnectedPeerCount(p) == Cardinality({k \in 1..Len(p) : p[k].connected})

\* peerCount + 1 >= this.signal.roomCount  (a comparison with undefined is false)
isFullyConnected(p, rc) == rc # <<>> /\ getConnectedPeerCount(p) + 1 >= rc[1]

\* ------------------------------------------------------ notifications
Note(ev, id) == [ev |-> ev, id |-> id]

Op(op, id) == [op |-> op, id |-> id]

\* the part of the state a handler's emissions act on
Ctx(j, st, e) == [join |-> j, stale |-> st, emitted |-> e]

\* this.emit('full-connect'): every once-listener registered by waitFor runs and
\* is removed; it clears its timer and resolves its promise (a no-op on a promise
\* that was already rejected)
EmitFullConnect(ctx) ==
    [join |-> IF ctx.join = "waitFullConnect" THEN "resolved" ELSE ctx.join,
     stale |-> 0,
     emitted |-> Append(ctx.emitted, Note("full-connect", ""))]

\* a check that fires whatever the predicate says
checkFullConnectAlways(ctx, p, rc) == EmitFullConnect(ctx)

checkFullConnect(ctx, p, rc) ==
    IF isFullyConnected(p, rc) THEN EmitFullConnect(ctx) ELSE ctx

\* join() always waits for 'full-connect'
JoinContinueAlwaysWait(ctx, n, p, rc) ==
    [checkFullConnect(ctx, p, rc) EXCEPT !.join = "waitFullConnect"]

\* join() after its room-count wait returned n (lines 42-44): the check runs
\* before waitFor registers the listener
JoinContinue(ctx, n, p, rc) ==
    LET c == checkFullConnect(ctx, p, rc)
    IN  IF n # 1
        THEN [c EXCEPT !.join = "waitFullConnect"]
        ELSE [c EXCEPT !.join = "resolved"]

Pending(j) == j \in {"waitRoomCount", "waitFullConnect"}

NoOrphans == [pending |-> 0, connected |-> 0]

RECURSIVE SumOver(_, _)
SumOver(f, S) ==
    IF S = {} THEN 0
    ELSE LET x == CHOOSE y \in S : TRUE IN f[x] + SumOver(f, S \ {x})

\* the capabilities alive: map entries and overwritten ones
LiveCaps(p, o) ==
    Len(p) + SumOver([id \in Ids |-> o[id].pending + o[id].connected], Ids)

\* ------------------------------------------------------------------ Init
\* the orchestrator after construction; roomCount is a field of the external
\* SignalModule, read and never written here: before the relay's first update
\* it is either not a number yet or the -1 the alternate binding starts with
MeshInit ==
    /\ peers = <<>>
    /\ orphans = [id \in Ids |-> NoOrphans]
    /\ roomCount \in {<<>>, <<-1>>}
    /\ join = "idle"
    /\ joinCount = 0
    /\ stale = 0
    /\ pendingAtDestroy = FALSE
    /\ emitted = <<>>
    /\ sends = <<>>
    /\ raised = FALSE
    /\ lastOp = Op("init", "")
    /\ broadcastedStream = <<>>
    /\ calls = <<>>

\* -------------------------------------------------------- relay events
\* signal.on('room-count'): the orchestrator's handler (registered by connect)
\* runs first, then the continuation of a join() awaiting the count
RelayRoomCount(n) ==
    LET rc == <<n>>
        c0 == Ctx(join, stale, <<Note("room-count", "")>>)
        c1 == checkFullConnect(c0, peers, rc)
        c2 == IF join = "waitRoomCount" THEN JoinContinue(c1, n, peers, rc) ELSE c1
    IN  /\ roomCount' = rc
        /\ join' = c2.join
        /\ stale' = c2.stale
        /\ emitted' = c2.emitted
        /\ joinCount' = IF join = "waitRoomCount" THEN n ELSE joinCount
        /\ pendingAtDestroy' = (pendingAtDestroy /\ Pending(c2.join))
        /\ sends' = <<>>
        /\ raised' = FALSE
        /\ lastOp' = Op("room-count", "")
        /\ calls' = <<>>
        /\ UNCHANGED <<simpleVars, broadcastedStream, peers, orphans>>

\* signal.on('initialize'): the entry is assigned without a presence check, so a
\* capability already stored under socketId stays alive outside the map
RelayInitialize(id) ==
    /\ LiveCaps(peers, orphans) < MaxCaps
    /\ peers' = PeersPut(peers, createPeer(id, TRUE))
    /\ orphans' = IF ~PeersHas(peers, id) THEN orphans
                  ELSE IF PeersGet(peers, id).connected
                       THEN [orphans EXCEPT ![id].connected = @ + 1]
                       ELSE [orphans EXCEPT ![id].pending = @ + 1]
    /\ emitted' = <<>>
    /\ sends' = <<>>
    /\ raised' = FALSE
    /\ lastOp' = Op("initialize", id)
    /\ calls' = <<>>
    /\ UNCHANGED <<simpleVars, broadcastedStream, roomCount, join, joinCount, stale, pendingAtDestroy>>

\* a destroy handler that notifies without the presence check
RelayDestroyNoCheck(id) ==
    /\ peers' = PeersDelete(peers, id)
    /\ emitted' = <<Note("disconnect", id)>>
    /\ sends' = <<>>
    /\ raised' = FALSE
    /\ lastOp' = Op("relay-destroy", id)
    /\ calls' = <<>>
    /\ UNCHANGED <<simpleVars, broadcastedStream, orphans, roomCount, join, joinCount, stale,
                   pendingAtDestroy>>

\* signal.on('destroy')
RelayDestroy(id) ==
    /\ IF PeersHas(peers, id)
       THEN /\ peers' = PeersDelete(peers, id)
            /\ emitted' = <<Note("disconnect", id)>>
       ELSE /\ peers' = peers
            /\ emitted' = <<>>
    /\ sends' = <<>>
    /\ raised' = FALSE
    /\ lastOp' = Op("relay-destroy", id)
    /\ calls' = <<>>
    /\ UNCHANGED <<simpleVars, broadcastedStream, orphans, roomCount, join, joinCount, stale,
                   pendingAtDestroy>>

\* one call of a capability method other than send
Call(id, method, arg) == [id |-> id, method |-> method, arg |-> arg]

\* a signal handler that creates a capability for every signal
SignalEntryAlways(p, socketId) == PeersPut(p, createPeer(socketId, FALSE))

\* lines 82-85: the map after the presence test of the signal handler
SignalEntry(p, socketId) ==
    IF ~PeersHas(p, socketId) THEN PeersPut(p, createPeer(socketId, FALSE)) ELSE p

\* signal.on('signal')
RelaySignal(id, signal) ==
    /\ PeersHas(peers, id) \/ LiveCaps(peers, orphans) < MaxCaps
    /\ peers' = SignalEntry(peers, id)
    /\ calls' = <<Call(id, "signal", signal)>>
    /\ emitted' = <<>>
    /\ sends' = <<>>
    /\ raised' = FALSE
    /\ lastOp' = [op |-> "signal", id |-> id, arg |-> signal]
    /\ UNCHANGED <<simpleVars, broadcastedStream, orphans, roomCount, join, joinCount,
                   stale, pendingAtDestroy>>

\* ------------------------------------------------- capability events
\* peer.on('connect') of the capability stored under id
PeerConnect(id) ==
    /\ PeersHas(peers, id)
    /\ ~PeersGet(peers, id).connected
    /\ LET p == [peers EXCEPT ![PeersIndex(peers, id)].connected = TRUE]
           c == checkFullConnect(Ctx(join, stale, <<Note("connect", id)>>),
                                 p, roomCount)
       IN  /\ peers' = p
           /\ join' = c.join
           /\ stale' = c.stale
           /\ emitted' = c.emitted
           /\ pendingAtDestroy' = (pendingAtDestroy /\ Pending(c.join))
    /\ sends' = <<>>
    /\ raised' = FALSE
    /\ lastOp' = Op("peer-connect", id)
    /\ calls' = <<>>
    /\ UNCHANGED <<simpleVars, broadcastedStream, orphans, roomCount, joinCount>>

\* peer.on('connect') of a capability of id that was overwritten in the map
OrphanConnect(id) ==
    /\ orphans[id].pending > 0
    /\ LET c == checkFullConnect(Ctx(join, stale, <<Note("connect", id)>>),
                                 peers, roomCount)
       IN  /\ join' = c.join
           /\ stale' = c.stale
           /\ emitted' = c.emitted
           /\ pendingAtDestroy' = (pendingAtDestroy /\ Pending(c.join))
    /\ orphans' = [orphans EXCEPT ![id].pending = @ - 1, ![id].connected = @ + 1]
    /\ sends' = <<>>
    /\ raised' = FALSE
    /\ lastOp' = Op("orphan-connect", id)
    /\ calls' = <<>>
    /\ UNCHANGED <<simpleVars, broadcastedStream, peers, roomCount, joinCount>>

\* an error handler that tags the notification with no identity
onErrorUntagged(socketId) == <<Note("error", "")>>

\* peer.on('error') (lines 158-162): the notifications the handler emits
onError(socketId) == <<Note("error", socketId)>>

\* peer.on('error') of the capability stored under id; the capability may clear
\* its own connected flag when it fails (closes), the handler touches nothing
PeerError(id, closes) ==
    /\ PeersHas(peers, id)
    /\ closes => PeersGet(peers, id).connected
    /\ peers' = IF closes
                THEN [peers EXCEPT ![PeersIndex(peers, id)].connected = FALSE]
                ELSE peers
    /\ emitted' = onError(id)
    /\ sends' = <<>>
    /\ raised' = FALSE
    /\ lastOp' = Op("peer-error", id)
    /\ calls' = <<>>
    /\ UNCHANGED <<simpleVars, broadcastedStream, orphans, roomCount, join, joinCount,
                   stale, pendingAtDestroy>>

\* peer.on('error') of a capability of id that was overwritten in the map
OrphanError(id) ==
    /\ orphans[id] # NoOrphans
    /\ emitted' = onError(id)
    /\ sends' = <<>>
    /\ raised' = FALSE
    /\ lastOp' = Op("orphan-error", id)
    /\ calls' = <<>>
    /\ UNCHANGED <<simpleVars, broadcastedStream, peers, orphans, roomCount, join,
                   joinCount, stale, pendingAtDestroy>>

\* ------------------------------------------------------- API operations
\* JSON.stringify of the structured payloads of Messages
Stringify(v) == CASE v = "x1" -> "{\"x\":1}"
                  [] OTHER -> "null"

\* typeof message === 'string' ? message : JSON.stringify(message)
Encode(m) == IF m.kind = "text" THEN m.val ELSE Stringify(m.val)

\* one call of peer.send on the capability of entry e
SendCall(e, data) == [id |-> e.id, connected |-> e.connected, data |-> data]

\* the for-in loop of broadcast from position k on: send is called on every
\* entry; throws is what the capability does when send is called before it is
\* connected (it throws, which ends the loop, or it does not)
RECURSIVE BroadcastLoop(_, _, _, _, _)
BroadcastLoop(p, k, data, throws, acc) ==
    IF k > Len(p) THEN [sends |-> acc, raised |-> FALSE]
    ELSE IF ~p[k].connected /\ throws
         THEN [sends |-> Append(acc, SendCall(p[k], data)), raised |-> TRUE]
         ELSE BroadcastLoop(p, k + 1, data, throws, Append(acc, SendCall(p[k], data)))

broadcast(m, throws) ==
    /\ throws => \E k \in 1..Len(peers) : ~peers[k].connected
    /\ LET r == BroadcastLoop(peers, 1, Encode(m), throws, <<>>)
       IN  /\ sends' = r.sends
           /\ raised' = r.raised
    /\ emitted' = <<>>
    /\ lastOp' = Op("broadcast", "")
    /\ calls' = <<>>
    /\ UNCHANGED <<simpleVars, broadcastedStream, peers, orphans, roomCount, join, joinCount, stale,
                   pendingAtDestroy>>

send(id, m, throws) ==
    /\ throws => PeersHas(peers, id) /\ ~PeersGet(peers, id).connected
    /\ IF PeersHas(peers, id)
       THEN /\ sends' = <<SendCall(PeersGet(peers, id), Encode(m))>>
            /\ raised' = (~PeersGet(peers, id).connected /\ throws)
       ELSE /\ sends' = <<>>
            /\ raised' = FALSE
    /\ emitted' = <<>>
    /\ lastOp' = Op("send", id)
    /\ calls' = <<>>
    /\ UNCHANGED <<simpleVars, broadcastedStream, peers, orphans, roomCount, join, joinCount, stale,
                   pendingAtDestroy>>

\* join(room, password) up to its first await
Join ==
    /\ ~Pending(join)
    /\ stale < MaxListeners
    /\ join' = "waitRoomCount"
    /\ joinCount' = 0
    /\ emitted' = <<>>
    /\ sends' = <<>>
    /\ raised' = FALSE
    /\ lastOp' = Op("join", "")
    /\ calls' = <<>>
    /\ UNCHANGED <<simpleVars, broadcastedStream, peers, orphans, roomCount, stale, pendingAtDestroy>>

\* the 5000 ms bound of signal.waitFor('room-count', 5000) passes: the await throws
RoomCountTimeout ==
    /\ join = "waitRoomCount"
    /\ join' = "rejected"
    /\ pendingAtDestroy' = FALSE
    /\ emitted' = <<>>
    /\ sends' = <<>>
    /\ raised' = FALSE
    /\ lastOp' = Op("room-count-timeout", "")
    /\ calls' = <<>>
    /\ UNCHANGED <<simpleVars, broadcastedStream, peers, orphans, roomCount, joinCount, stale>>

\* the timer of waitFor('full-connect', 10000) fires (it is cleared only by the
\* listener): the promise is rejected, the once-listener stays registered
JoinTimeout ==
    /\ join = "waitFullConnect"
    /\ join' = "rejected"
    /\ stale' = stale + 1
    /\ pendingAtDestroy' = FALSE
    /\ emitted' = <<>>
    /\ sends' = <<>>
    /\ raised' = FALSE
    /\ lastOp' = Op("join-timeout", "")
    /\ calls' = <<>>
    /\ UNCHANGED <<simpleVars, broadcastedStream, peers, orphans, roomCount, joinCount>>

\* destroy(): every entry's capability is destroyed and the entry deleted; the
\* relay handlers, the 'full-connect' listeners and the timers are left alone
destroy ==
    /\ peers' = <<>>
    /\ pendingAtDestroy' = Pending(join)
    /\ emitted' = <<>>
    /\ sends' = <<>>
    /\ raised' = FALSE
    /\ lastOp' = Op("destroy", "")
    /\ calls' = <<>>
    /\ UNCHANGED <<simpleVars, broadcastedStream, orphans, roomCount, join, joinCount, stale>>

\* the orchestrator under relay and capability events, with join() and destroy()
MeshNext ==
    \/ \E n \in RoomCounts : RelayRoomCount(n)
    \/ \E id \in Ids : RelayInitialize(id)
    \/ \E id \in Ids : RelayDestroy(id)
    \/ \E id \in Ids, sg \in Payloads : RelaySignal(id, sg)
    \/ \E id \in Ids : PeerConnect(id)
    \/ \E id \in Ids : OrphanConnect(id)
    \/ \E id \in Ids, c \in BOOLEAN : PeerError(id, c)
    \/ \E id \in Ids : OrphanError(id)
    \/ Join
    \/ RoomCountTimeout
    \/ JoinTimeout
    \/ destroy

\* the orchestrator driven through its message operations: peers come and go,
\* connect and fail while messages are broadcast and sent
MessageNext ==
    \/ \E id \in Ids : RelayInitialize(id)
    \/ \E id \in Ids : RelayDestroy(id)
    \/ \E id \in Ids, sg \in Payloads : RelaySignal(id, sg)
    \/ \E id \in Ids : PeerConnect(id)
    \/ \E id \in Ids, c \in BOOLEAN : PeerError(id, c)
    \/ \E m \in Messages, t \in BOOLEAN : broadcast(m, t)
    \/ \E id \in Ids, m \in Messages, t \in BOOLEAN : send(id, m, t)
    \/ destroy

\* ---------------------------------------------------- stream operations
\* peer.addStream(stream) / peer.removeStream(stream) on the capability of entry e
\* (the capability attaches and detaches; what it does when the stream is already
\* attached, or was never attached, is the library's and is not modelled)
addStream(e, stream) == [e EXCEPT !.streams = @ \cup {stream}]

detachStream(e, stream) == [e EXCEPT !.streams = @ \ {stream}]

\* the calls of a for-in loop that calls method(stream) on every entry
CallEach(p, method, stream) == [k \in 1..Len(p) |-> Call(p[k].id, method, stream)]

\* broadcastStream(stream)
broadcastStream(stream) ==
    /\ broadcastedStream' = <<stream>>
    /\ peers' = [k \in 1..Len(peers) |-> addStream(peers[k], stream)]
    /\ calls' = CallEach(peers, "addStream", stream)
    /\ emitted' = <<>>
    /\ sends' = <<>>
    /\ raised' = FALSE
    /\ lastOp' = Op("broadcastStream", stream)
    /\ UNCHANGED <<simpleVars, orphans, roomCount, join, joinCount, stale,
                   pendingAtDestroy>>

\* broadcastRemoveStream(stream): the default is cleared whatever stream is
\* passed; removeStream is called with the argument
broadcastRemoveStream(stream) ==
    /\ broadcastedStream' = <<>>
    /\ peers' = [k \in 1..Len(peers) |-> detachStream(peers[k], stream)]
    /\ calls' = CallEach(peers, "removeStream", stream)
    /\ emitted' = <<>>
    /\ sends' = <<>>
    /\ raised' = FALSE
    /\ lastOp' = Op("broadcastRemoveStream", stream)
    /\ UNCHANGED <<simpleVars, orphans, roomCount, join, joinCount, stale,
                   pendingAtDestroy>>

\* the argument of hasOwnProperty in sendStream / removeStream:
\* id && this.peers[id] !== null is id itself when id is the empty string, and
\* otherwise the boolean true (undefined !== null holds too), which
\* hasOwnProperty converts to the key "true"
StreamKey(p, id) == IF id = "" THEN "" ELSE "true"

\* the body shared by sendStream and removeStream: when the test passes the
\* method is called on this.peers[id], which throws when id has no entry
StreamOp(id, stream, method) ==
    IF PeersHas(peers, StreamKey(peers, id))
    THEN IF PeersHas(peers, id)
         THEN /\ peers' = [peers EXCEPT ![PeersIndex(peers, id)] =
                              IF method = "addStream" THEN addStream(@, stream)
                              ELSE detachStream(@, stream)]
              /\ calls' = <<Call(id, method, stream)>>
              /\ raised' = FALSE
         ELSE /\ peers' = peers
              /\ calls' = <<>>
              /\ raised' = TRUE
    ELSE /\ peers' = peers
         /\ calls' = <<>>
         /\ raised' = FALSE

\* sendStream(id, stream)
sendStream(id, stream) ==
    /\ StreamOp(id, stream, "addStream")
    /\ emitted' = <<>>
    /\ sends' = <<>>
    /\ lastOp' = Op("sendStream", id)
    /\ UNCHANGED <<simpleVars, broadcastedStream, orphans, roomCount, join, joinCount,
                   stale, pendingAtDestroy>>

\* removeStream(id, stream)
removeStream(id, stream) ==
    /\ StreamOp(id, stream, "removeStream")
    /\ emitted' = <<>>
    /\ sends' = <<>>
    /\ lastOp' = Op("removeStream", id)
    /\ UNCHANGED <<simpleVars, broadcastedStream, orphans, roomCount, join, joinCount,
                   stale, pendingAtDestroy>>

\* the orchestrator driven through its stream operations: peers come and go,
\* connect and fail while streams are broadcast, sent and removed
StreamNext ==
    \/ \E id \in Ids : RelayInitialize(id)
    \/ \E id \in Ids : RelayDestroy(id)
    \/ \E id \in Ids, sg \in Payloads : RelaySignal(id, sg)
    \/ \E id \in Ids : PeerConnect(id)
    \/ \E id \in Ids, c \in BOOLEAN : PeerError(id, c)
    \/ \E st \in Streams : broadcastStream(st)
    \/ \E st \in Streams : broadcastRemoveStream(st)
    \/ \E id \in Ids, st \in Streams : sendStream(id, st)
    \/ \E id \in Ids, st \in Streams : removeStream(id, st)
    \/ destroy

\* ==================================================== SimplePeerMesh
\* The alternate binding (src/unnamed/part_000): the same peer handlers over
\* a socket, with its own event emitter (on / off / fire) and a join() that
\* waits through listeners on 'roomCount' and 'fullConnect'.

\* Array.prototype.indexOf, 1-based; 0 stands for JavaScript's -1
IndexOf(arr, fun) ==
    IF \E k \in 1..Len(arr) : arr[k] = fun
    THEN CHOOSE k \in 1..Len(arr) : arr[k] = fun /\ \A i \in 1..(k - 1) : arr[i] # fun
    ELSE 0

RemoveAt(arr, k) == [i \in 1..(Len(arr) - 1) |-> IF i < k THEN arr[i] ELSE arr[i + 1]]

\* arr.splice(arr.indexOf(fun), 1): a start of -1 counts from the end of the array
Splice(arr, fun) ==
    IF arr = <<>> THEN arr
    ELSE IF IndexOf(arr, fun) = 0 THEN RemoveAt(arr, Len(arr))
    ELSE RemoveAt(arr, IndexOf(arr, fun))

off(ev, event, fun) == [ev EXCEPT ![event] = Splice(@, fun)]

on(ev, event, fun) == [ev EXCEPT ![event] = Append(@, fun)]

\* the part of the state fire() and the listeners act on
SCtx(ev, j) == [events |-> ev, join |-> j, fired |-> <<>>, invoked |-> <<>>]

\* roomCountEventCallback of join j (lines 19-31)
RoomCountCallback(st, j, rc) ==
    LET a == IF rc = 1
             THEN [st EXCEPT !.join[j] = "resolved"]
             ELSE [st EXCEPT !.events = on(@, "fullConnect", j),
                             !.join[j] = "waitFullConnect"]
    IN  [a EXCEPT !.events = off(@, "roomCount", j)]

\* fullConnectEventCallback of join j (lines 24-27)
FullConnectCallback(st, j) ==
    [st EXCEPT !.join[j] = "resolved", !.events = off(@, "fullConnect", j)]

Invoke(st, event, j, rc) ==
    LET a == [st EXCEPT !.invoked = Append(@, [ev |-> event, j |-> j])]
    IN  IF event = "roomCount" THEN RoomCountCallback(a, j, rc)
        ELSE FullConnectCallback(a, j)

\* for (let fun of this._events[event]) fun(...): the iterator reads the live
\* array by position
RECURSIVE FireLoop(_, _, _, _)
FireLoop(st, event, i, rc) ==
    IF i > Len(st.events[event]) THEN st
    ELSE FireLoop(Invoke(st, event, st.events[event][i], rc), event, i + 1, rc)

fire(st, event, rc) ==
    FireLoop([st EXCEPT !.fired = Append(@, Note(event, ""))], event, 1, rc)

\* 'connect' and 'disconnect' have no listener inside the class
fireTagged(st, event, id) == [st EXCEPT !.fired = Append(@, Note(event, id))]

\* checkFullConnect of part_000 (lines 138-144)
sCheckFullConnect(st, p, rc) ==
    IF getConnectedPeerCount(p) + 1 >= rc THEN fire(st, "fullConnect", rc) ELSE st

SimpleInit ==
    /\ sPeers = <<>>
    /\ sOrphans = [id \in Ids |-> NoOrphans]
    /\ sRoomCount = -1
    /\ sEvents = [roomCount |-> <<>>, fullConnect |-> <<>>]
    /\ sJoin = [j \in SJoinIds |-> "idle"]
    /\ sFired = <<>>
    /\ sInvoked = <<>>
    /\ sLastOp = Op("init", "")

\* socket.on('roomCount')
SocketRoomCount(n) ==
    LET a == fire(SCtx(sEvents, sJoin), "roomCount", n)
        b == sCheckFullConnect(a, sPeers, n)
    IN  /\ sRoomCount' = n
        /\ sEvents' = b.events
        /\ sJoin' = b.join
        /\ sFired' = b.fired
        /\ sInvoked' = b.invoked
        /\ sLastOp' = Op("roomCount", "")
        /\ UNCHANGED <<meshVars, sPeers, sOrphans>>

\* socket.on('initialize')
SocketInitialize(id) ==
    /\ LiveCaps(sPeers, sOrphans) < MaxCaps
    /\ sPeers' = PeersPut(sPeers, createPeer(id, TRUE))
    /\ sOrphans' = IF ~PeersHas(sPeers, id) THEN sOrphans
                   ELSE IF PeersGet(sPeers, id).connected
                        THEN [sOrphans EXCEPT ![id].connected = @ + 1]
                        ELSE [sOrphans EXCEPT ![id].pending = @ + 1]
    /\ sFired' = <<>>
    /\ sInvoked' = <<>>
    /\ sLastOp' = Op("initialize", id)
    /\ UNCHANGED <<meshVars, sRoomCount, sEvents, sJoin>>

\* socket.on('destroy')
SocketDestroy(id) ==
    /\ IF PeersHas(sPeers, id)
       THEN /\ sPeers' = PeersDelete(sPeers, id)
            /\ sFired' = <<Note("disconnect", id)>>
       ELSE /\ sPeers' = sPeers
            /\ sFired' = <<>>
    /\ sInvoked' = <<>>
    /\ sLastOp' = Op("destroy", id)
    /\ UNCHANGED <<meshVars, sOrphans, sRoomCount, sEvents, sJoin>>

\* socket.on('signal')
SocketSignal(id) ==
    /\ PeersHas(sPeers, id) \/ LiveCaps(sPeers, sOrphans) < MaxCaps
    /\ sPeers' = IF PeersHas(sPeers, id) THEN sPeers
                 ELSE PeersPut(sPeers, createPeer(id, FALSE))
    /\ sFired' = <<>>
    /\ sInvoked' = <<>>
    /\ sLastOp' = Op("signal", id)
    /\ UNCHANGED <<meshVars, sOrphans, sRoomCount, sEvents, sJoin>>

\* peer.on("connect") of the capability stored under id (lines 103-108)
SPeerConnect(id) ==
    /\ PeersHas(sPeers, id)
    /\ ~PeersGet(sPeers, id).connected
    /\ LET p == [sPeers EXCEPT ![PeersIndex(sPeers, id)].connected = TRUE]
           b == sCheckFullConnect(fireTagged(SCtx(sEvents, sJoin), "connect", id),
                                  p, sRoomCount)
       IN  /\ sPeers' = p
           /\ sEvents' = b.events
           /\ sJoin' = b.join
           /\ sFired' = b.fired
           /\ sInvoked' = b.invoked
    /\ sLastOp' = Op("peer-connect", id)
    /\ UNCHANGED <<meshVars, sOrphans, sRoomCount>>

\* peer.on("connect") of a capability of id that was overwritten in the map
SOrphanConnect(id) ==
    /\ sOrphans[id].pending > 0
    /\ LET b == sCheckFullConnect(fireTagged(SCtx(sEvents, sJoin), "connect", id),
                                  sPeers, sRoomCount)
       IN  /\ sEvents' = b.events
           /\ sJoin' = b.join
           /\ sFired' = b.fired
           /\ sInvoked' = b.invoked
    /\ sOrphans' = [sOrphans EXCEPT ![id].pending = @ - 1, ![id].connected = @ + 1]
    /\ sLastOp' = Op("orphan-connect", id)
    /\ UNCHANGED <<meshVars, sPeers, sRoomCount>>

\* join(room): the promise executor registers roomCountEventCallback
SJoin(j) ==
    /\ sJoin[j] = "idle"
    /\ \A i \in SJoinIds : i < j => sJoin[i] # "idle"
    /\ sJoin' = [sJoin EXCEPT ![j] = "waitRoomCount"]
    /\ sEvents' = on(sEvents, "roomCount", j)
    /\ sFired' = <<>>
    /\ sInvoked' = <<>>
    /\ sLastOp' = Op("join", "")
    /\ UNCHANGED <<meshVars, sPeers, sOrphans, sRoomCount>>

SimpleNext ==
    \/ \E n \in RoomCounts : SocketRoomCount(n)
    \/ \E id \in Ids : SocketInitialize(id)
    \/ \E id \in Ids : SocketDestroy(id)
    \/ \E id \in Ids : SocketSignal(id)
    \/ \E id \in Ids : SPeerConnect(id)
    \/ \E id \in Ids : SOrphanConnect(id)
    \/ \E j \in SJoinIds : SJoin(j)

\* ------------------------------------------------------- specifications
Init == MeshInit /\ SimpleInit

Next == MeshNext

\* MultiPeerMesh with join() and destroy()
Spec == Init /\ [][Next]_vars

InitSimple == SimpleInit /\ MeshInit /\ roomCount = <<>>

NextSimple == SimpleNext

\* SimplePeerMesh
SpecSimple == InitSimple /\ [][NextSimple]_vars

NextMessages == MessageNext

\* MultiPeerMesh with its message operations
SpecMessages == Init /\ [][NextMessages]_vars

NextStreams == StreamNext

\* MultiPeerMesh with its stream operations
SpecStreams == Init /\ [][NextStreams]_vars

\* ------------------------------------------------------------ properties
FullConnectCount(e) == Cardinality({k \in 1..Len(e) : e[k].ev = "full-connect"})

ConnectedIds(p) == {p[k].id : k \in {i \in 1..Len(p) : p[i].connected}}

\* C1: 'full-connect' is emitted exactly once per false-to-true transition of
\* (connectedCount + 1 >= roomCount): once the relay has reported a room count,
\* a step emits it once when the predicate goes from false to true, and not at
\* all otherwise.
C1_FullConnectEdgeTriggered ==
    [][(roomCount # <<>> /\ roomCount[1] \in RoomCounts) =>
         FullConnectCount(emitted') =
           IF ~isFullyConnected(peers, roomCount) /\ isFullyConnected(peers', roomCount')
           THEN 1 ELSE 0]_vars

\* C2 (as claimed): a join whose room-count was N > 1 leaves its wait either
\* resolved at a moment when at least N-1 peers are connected, or rejected by
\* the timeout.
C2_ResolvesWithJoinCount ==
    [][(join = "waitFullConnect" /\ join' # join) =>
         \/ join' = "resolved" /\ getConnectedPeerCount(peers') >= joinCount - 1
         \/ join' = "rejected" /\ lastOp'.op = "join-timeout"]_vars

\* C2 (amended): a join whose room-count was N > 1 leaves its wait either
\* resolved at a moment when connectedCount + 1 >= R, R the relay's latest room
\* count (which a later update may have made smaller than N), or rejected by
\* the timeout.
C2_ResolvesWithLatestCount ==
    [][(join = "waitFullConnect" /\ join' # join) =>
         \/ join' = "resolved" /\ joinCount > 1 /\ roomCount' # <<>>
                               /\ getConnectedPeerCount(peers') >= roomCount'[1] - 1
         \/ join' = "rejected" /\ lastOp'.op = "join-timeout"]_vars

\* a join that received N = 3 has been resolved by the second peer's connect
C2_Witness ==
    /\ join = "resolved"
    /\ joinCount = 3
    /\ roomCount = <<3>>
    /\ lastOp.op = "peer-connect"
    /\ getConnectedPeerCount(peers) = 2

\* C3: a join whose room-count wait returns 1 is resolved in that very step,
\* with no peer connected and without awaiting 'full-connect'.
C3_AloneResolvesAtOnce ==
    [][(join = "waitRoomCount" /\ lastOp'.op = "room-count" /\ joinCount' = 1) =>
         join' = "resolved"]_vars

C3_Witness ==
    /\ lastOp.op = "room-count"
    /\ join = "resolved"
    /\ joinCount = 1
    /\ peers = <<>>

FiredFullConnect(f) == \E k \in 1..Len(f) : f[k].ev = "fullConnect"

\* C4: 'fullConnect' is never fired before the first room-count update from the
\* relay (until then this.roomCount is the constructor's -1).
C4_NoFullConnectBeforeRoomCount == FiredFullConnect(sFired) => sRoomCount # -1

\* C5: broadcast hands the message to every connected entry and to no other
\* entry, and raises nothing.
C5_BroadcastOnlyConnected ==
    lastOp.op = "broadcast" =>
        /\ \A k \in 1..Len(sends) : sends[k].connected
        /\ {sends[k].id : k \in 1..Len(sends)} = ConnectedIds(peers)
        /\ ~raised

\* C6: send to an identity without an entry, or whose entry is not connected,
\* hands nothing to any capability, leaves the map unchanged and raises nothing.
C6_SendNoOp ==
    [][(lastOp'.op = "send" /\ lastOp'.id \notin ConnectedIds(peers)) =>
         sends' = <<>> /\ ~raised' /\ peers' = peers]_vars

Core == <<peers, orphans, roomCount, join, joinCount, stale, pendingAtDestroy>>

\* C7: a relay destroy(id) for an identity without an entry changes nothing and
\* emits nothing; destroy() leaves the map empty, and a destroy() right after a
\* destroy() changes nothing.
C7_TeardownIdempotent ==
    [][/\ (lastOp'.op = "relay-destroy" /\ ~PeersHas(peers, lastOp'.id)) =>
            Core' = Core /\ emitted' = <<>> /\ ~raised'
       /\ lastOp'.op = "destroy" => peers' = <<>> /\ emitted' = <<>> /\ ~raised'
       /\ (lastOp'.op = "destroy" /\ lastOp.op = "destroy") => Core' = Core]_vars

\* a relay destroy(id) has just been handled for an identity without an entry,
\* while another identity has one
C7_Witness ==
    /\ lastOp.op = "relay-destroy"
    /\ ~PeersHas(peers, lastOp.id)
    /\ emitted = <<>>
    /\ Len(peers) = 1

\* C8: the peer map holds at most one entry per identity.
C8_OneEntryPerIdentity ==
    \A id \in Ids : Cardinality({k \in 1..Len(peers) : peers[k].id = id}) <= 1

\* initialize has arrived for an identity that already had an entry
C8_Witness ==
    /\ lastOp.op = "initialize"
    /\ orphans[lastOp.id] # NoOrphans
    /\ PeersHas(peers, lastOp.id)
    /\ Len(peers) = 1

\* C9: once a join has been rejected by its timeout, no listener it registered
\* is left on 'full-connect'.
C9_NoDanglingListener == stale = 0

\* C10: a join that was pending when destroy() was called is never resolved
\* afterwards.
C10_NoResolveAfterDestroy == [][pendingAtDestroy => join' # "resolved"]_vars

\* C11: the role of an identity's entry never changes while the entry exists:
\* a step that finds an entry for id and leaves one keeps its initiator flag.
C11_RoleImmutable ==
    [][\A id \in Ids :
         (PeersHas(peers, id) /\ PeersHas(peers', id)) =>
             PeersGet(peers', id).initiator = PeersGet(peers, id).initiator]_vars

\* the entry of every identity but id is the same before and after the step
OthersUntouched(id) ==
    \A o \in Ids \ {id} :
        /\ PeersHas(peers', o) = PeersHas(peers, o)
        /\ PeersHas(peers, o) => PeersGet(peers', o) = PeersGet(peers, o)

CreatedEntry ==
    \/ lastOp'.op = "initialize"
    \/ lastOp'.op = "signal" /\ ~PeersHas(peers, lastOp'.id)

\* a capability is created with the stream that is set, and with none when no
\* stream is set
CreatedWithDefault ==
    CreatedEntry =>
        PeersGet(peers', lastOp'.id).streams =
            IF broadcastedStream = <<>> THEN {} ELSE {broadcastedStream[1]}

\* C13 (as claimed): while a stream s is set every capability created by
\* initialize, or by a signal from an unknown identity, has s attached, and one
\* created while no stream is set has none; the step that clears the stream
\* leaves s attached to no entry of the map.
C13_ClearDetachesSetStream ==
    [][/\ CreatedWithDefault
       /\ (lastOp'.op = "broadcastRemoveStream" /\ broadcastedStream # <<>>) =>
            /\ broadcastedStream' = <<>>
            /\ \A k \in 1..Len(peers') : broadcastedStream[1] \notin peers'[k].streams]_vars

\* C13 (amended): creation as claimed; broadcastRemoveStream(t) clears the set
\* stream and detaches t, the stream it was given, from every entry of the map
\* (so the set stream is detached when t is that stream).
C13_ClearDetachesArgument ==
    [][/\ CreatedWithDefault
       /\ lastOp'.op = "broadcastRemoveStream" =>
            /\ broadcastedStream' = <<>>
            /\ Len(peers') = Len(peers)
            /\ calls' = CallEach(peers, "removeStream", lastOp'.id)
            /\ \A k \in 1..Len(peers') : peers'[k].streams = peers[k].streams \ {lastOp'.id}]_vars

\* s1 has been cleared with two peers in the map, one of them created while s1
\* was set and the other still carrying the stream s1 had replaced
C13_Witness ==
    /\ lastOp = Op("broadcastRemoveStream", "s1")
    /\ Len(calls) = 2
    /\ Len(peers) = 2
    /\ peers[1].streams = {"s2"}
    /\ peers[2].streams = {}

\* the step is a membership-relevant event: a room-count update, a peer's
\* transition into connected, or the removal of a peer by relay destroy(id)
MembershipEvent ==
    \/ lastOp'.op \in {"room-count", "peer-connect"}
    \/ lastOp'.op = "relay-destroy" /\ PeersHas(peers, lastOp'.id)

\* C14: once the relay has reported a room count, every membership-relevant
\* step evaluates the full-connect predicate on the state it leaves: the step
\* emits 'full-connect' exactly when connectedCount + 1 >= roomCount holds
\* after it, in the relay destroy step as well.
C14_CheckAfterEveryMembershipEvent ==
    [][(MembershipEvent /\ roomCount' # <<>> /\ roomCount'[1] \in RoomCounts) =>
         (FullConnectCount(emitted') >= 1 <=> isFullyConnected(peers', roomCount'))]_vars

\* C15: initialize(id) leaves an entry for id with role initiator and forwards
\* nothing; signal(id, payload) for an identity without an entry appends an
\* entry with role responder and hands the payload to that capability in the
\* same step; signal(id, payload) for an identity with an entry leaves the map
\* as it is and hands the payload to the capability of id.
C15_RoleByEvent ==
    [][/\ lastOp'.op = "initialize" =>
            /\ PeersHas(peers', lastOp'.id)
            /\ PeersGet(peers', lastOp'.id).initiator
            /\ ~PeersGet(peers', lastOp'.id).connected
            /\ calls' = <<>>
            /\ OthersUntouched(lastOp'.id)
       /\ lastOp'.op = "signal" =>
            /\ calls' = <<Call(lastOp'.id, "signal", lastOp'.arg)>>
            /\ IF PeersHas(peers, lastOp'.id)
               THEN peers' = peers
               ELSE /\ Len(peers') = Len(peers) + 1
                    /\ PeersHas(peers', lastOp'.id)
                    /\ ~PeersGet(peers', lastOp'.id).initiator
                    /\ ~PeersGet(peers', lastOp'.id).connected
                    /\ OthersUntouched(lastOp'.id)]_vars

\* the offer of b has been forwarded to a responder entry made for b, next to
\* the connected initiator entry of a
C15_Witness ==
    /\ lastOp = [op |-> "signal", id |-> "b", arg |-> "offer"]
    /\ calls = <<Call("b", "signal", "offer")>>
    /\ Len(peers) = 2
    /\ peers[1] = [id |-> "a", initiator |-> TRUE, connected |-> TRUE, streams |-> {}]
    /\ peers[2] = [id |-> "b", initiator |-> FALSE, connected |-> FALSE, streams |-> {}]

\* C16: each closing trigger removes the entry: a relay destroy(id) for an
\* identity with an entry, a capability error of the peer stored under id, and
\* destroy(), which removes every entry.
C16_ClosedByEveryTrigger ==
    [][/\ lastOp'.op \in {"relay-destroy", "peer-error"} => ~PeersHas(peers', lastOp'.id)
       /\ lastOp'.op = "destroy" => peers' = <<>>]_vars

\* C17: sendStream(id, stream) attaches the stream to the capability of id when
\* id has an entry, and removeStream(id, stream) detaches it likewise; for an
\* identity without an entry both call nothing, change nothing and raise nothing.
C17_StreamOpByIdentity ==
    [][lastOp'.op \in {"sendStream", "removeStream"} =>
         IF PeersHas(peers, lastOp'.id)
         THEN \E st \in Streams :
                /\ calls' = <<Call(lastOp'.id,
                                   IF lastOp'.op = "sendStream" THEN "addStream"
                                   ELSE "removeStream", st)>>
                /\ PeersGet(peers', lastOp'.id).streams =
                     IF lastOp'.op = "sendStream"
                     THEN PeersGet(peers, lastOp'.id).streams \cup {st}
                     ELSE PeersGet(peers, lastOp'.id).streams \ {st}
                /\ ~raised'
         ELSE peers' = peers /\ calls' = <<>> /\ ~raised']_vars

\* C18: every capability that was created and not destroyed is the current map
\* entry of its identity: no capability is alive outside the map.
C18_NoOrphanedCapability == \A id \in Ids : orphans[id] = NoOrphans

\* C19: join has no lost wake-up. A join that waits for 'full-connect' while the
\* completion predicate (connectedCount + 1 >= roomCount, with the room count
\* the relay reported) already holds is not left to its timeout: it is never
\* rejected from such a state.
C19_NoLostWakeup ==
    [][(/\ join = "waitFullConnect"
        /\ joinCount > 1
        /\ roomCount # <<>> /\ roomCount[1] \in RoomCounts
        /\ isFullyConnected(peers, roomCount)) => join' # "rejected"]_vars

\* the number of times listener j of event was invoked in the step's dispatches
InvokedCount(inv, event, j) ==
    Cardinality({k \in 1..Len(inv) : inv[k] = [ev |-> event, j |-> j]})

\* C20: the fire('roomCount') of a room-count step invokes every listener that
\* was registered for 'roomCount' when it started exactly once, although each
\* listener unregisters itself during the dispatch (so every join pending on
\* the room count is notified), and the off calls of the step remove from
\* 'roomCount' exactly the listeners that ran.
C20_FireReachesEveryListener ==
    [][sLastOp'.op = "roomCount" =>
         /\ \A k \in 1..Len(sEvents.roomCount) :
               InvokedCount(sInvoked', "roomCount", sEvents.roomCount[k]) = 1
         /\ \A j \in SJoinIds :
               (\E k \in 1..Len(sEvents'.roomCount) : sEvents'.roomCount[k] = j)
                 <=> (/\ \E k \in 1..Len(sEvents.roomCount) : sEvents.roomCount[k] = j
                      /\ InvokedCount(sInvoked', "roomCount", j) = 0)]_vars

====
